---- MODULE Spec2Model ----
(***************************************************************************)
(* Charlson comorbidity score of new_calc.py: the two matchers             *)
(* check_codes_exact and check_codes_startswith, and calculate_score       *)
(* (validation, categorisation, dependency removal, weight summation).     *)
(*                                                                         *)
(* A code is a sequence of characters.  A Python value that may be a str,  *)
(* an int or a list is a record [type, val].  The order in which Python    *)
(* iterates over a set (list(scored_categories), and the summation loop)   *)
(* is not fixed by the language: it is a nondeterministic choice.          *)
(* Standard output (list_cat) is not modelled.                             *)
(***************************************************************************)
EXTENDS Integers, Sequences, FiniteSets

VARIABLES
    pc,                 \* position in calculate_score / in the matcher call
    icd_codes,          \* the icd_codes argument
    exact_codes,        \* the exact_codes argument
    data,               \* mappingdata[mapping]
    code_group,         \* the code group handed to the matcher
    matchResult,        \* what the matcher returned
    catIdx,             \* position of "for category, details in data.items()"
    grpIdx,             \* position of "for code_group in details['codes']"
    scored_categories,  \* the set scored_categories
    snapshot,           \* list(scored_categories), the copy iterated over
    idx,                \* position in the copy
    pending,            \* categories the summation loop has yet to visit
    score,              \* the local score
    result              \* the value returned

vars == <<pc, icd_codes, exact_codes, data, code_group, matchResult, catIdx,
          grpIdx, scored_categories, snapshot, idx, pending, score, result>>

-----------------------------------------------------------------------------
(* Bounds *)

MaxInput == 2        \* longest icd_codes list
MaxCodes == 2        \* most codes in a flat group or in a sub-group
MaxSubGroups == 2    \* most sub-groups in a 'both' group
MaxDeps == 1         \* most entries in a depends_on list

-----------------------------------------------------------------------------
(* Values *)

K746  == <<"K", "7", "4", ".", "6">>
K747  == <<"K", "7", "4", ".", "7">>
K7471 == <<"K", "7", "4", ".", "7", "1">>
E10   == <<"E", "1", "0">>
C80   == <<"C", "8", "0">>

CodeUniverse == {K746, K747, K7471, E10, C80}

Str(c) == [type |-> "str", val |-> c]
Int123 == [type |-> "int", val |-> 123]
List(s) == [type |-> "list", val |-> s]

SeqsUpTo(S, n) == UNION {[1..k -> S] : k \in 0..n}

Range(s) == {s[i] : i \in DOMAIN s}

\* every way of listing the elements of S once
PermSeqs(S) ==
    {f \in [1..Cardinality(S) -> S] : \A i, j \in DOMAIN f : i # j => f[i] # f[j]}

\* every reordering of the sequence s
PermsOfSeq(s) == {[i \in DOMAIN s |-> s[p[i]]] : p \in PermSeqs(DOMAIN s)}

StrElems == {Str(c) : c \in CodeUniverse}

\* well-typed arguments: one string, or a list of strings
StrInputs == StrElems \cup {List(s) : s \in SeqsUpTo(StrElems, MaxInput)}

\* ill-typed arguments: an int, or a list with a non-string element
BadInputs ==
    {Int123} \cup
    {List(s) : s \in {t \in SeqsUpTo(StrElems \cup {Int123}, MaxInput) :
                        \E i \in DOMAIN t : t[i].type # "str"}}

FlatCodes == SeqsUpTo(CodeUniverse, MaxCodes)

AnyGroups == {[condition |-> "any", codes |-> cs] : cs \in FlatCodes}

BothGroups ==
    {[condition |-> "both", codes |-> gs] : gs \in SeqsUpTo(FlatCodes, MaxSubGroups)}

\* a condition the matchers do not know
OtherGroups == {[condition |-> "all", codes |-> <<K746>>]}

CodeGroups == AnyGroups \cup BothGroups \cup OtherGroups

NoGroup == [condition |-> "none", codes |-> <<>>]

-----------------------------------------------------------------------------
(* The matchers *)

\* the test the wrong way round: prefix.startswith(code)
StartsWith_reversed(code, prefix) ==
    /\ Len(code) <= Len(prefix)
    /\ SubSeq(prefix, 1, Len(code)) = code

\* str.startswith
StartsWith(code, prefix) ==
    /\ Len(prefix) <= Len(code)
    /\ SubSeq(code, 1, Len(prefix)) = prefix

\* "if isinstance(icd_codes, str): icd_codes = [icd_codes]"
EnsureList(icd) == IF icd.type = "str" THEN <<icd>> ELSE icd.val

\* "code in icd_codes": list membership by equality
InList(code, l) == \E j \in DOMAIN l : l[j].type = "str" /\ l[j].val = code

check_codes_exact(icd, group) ==
    LET l == EnsureList(icd)
        condition == group.condition
        codes == group.codes
    IN  IF condition = "any"
        THEN \E i \in DOMAIN codes : InList(codes[i], l)
        ELSE IF condition = "both"
        THEN \A g \in DOMAIN codes : \E i \in DOMAIN codes[g] : InList(codes[g][i], l)
        ELSE FALSE

\* only the first input code is looked at
check_codes_startswith_first(icd, group) ==
    LET l == EnsureList(icd)
        condition == group.condition
        codes == group.codes
    IN  IF condition = "any"
        THEN l # <<>> /\ \E i \in DOMAIN codes : StartsWith(l[1].val, codes[i])
        ELSE IF condition = "both"
        THEN \A g \in DOMAIN codes : \A i \in DOMAIN codes[g] :
                 l # <<>> /\ StartsWith(l[1].val, codes[g][i])
        ELSE FALSE

check_codes_startswith(icd, group) ==
    LET l == EnsureList(icd)
        condition == group.condition
        codes == group.codes
    IN  IF condition = "any"
        THEN \E j \in DOMAIN l : \E i \in DOMAIN codes : StartsWith(l[j].val, codes[i])
        ELSE IF condition = "both"
        THEN \A g \in DOMAIN codes : \A i \in DOMAIN codes[g] :
                 \E j \in DOMAIN l : StartsWith(l[j].val, codes[g][i])
        ELSE FALSE

-----------------------------------------------------------------------------
(* The mapping *)

Cats == {"liver_mild", "liver_severe", "dm_simple"}

\* the order of data.items()
CatOrder == <<"liver_mild", "liver_severe", "dm_simple">>

Weight == [c \in Cats |->
    IF c = "liver_mild" THEN 2 ELSE IF c = "liver_severe" THEN 6 ELSE 1]

CatCodes == [c \in Cats |->
    IF c = "liver_mild" THEN <<[condition |-> "any", codes |-> <<K746>>]>>
    ELSE IF c = "liver_severe" THEN <<[condition |-> "any", codes |-> <<K747>>]>>
    ELSE <<[condition |-> "both", codes |-> <<<<E10>>, <<C80>>>>],
           [condition |-> "any", codes |-> <<K7471>>]>>]

\* a category's depends_on: absent, or a list of category ids
DepChoices ==
    {[has |-> FALSE, deps |-> {}]} \cup
    {[has |-> TRUE, deps |-> S] : S \in {T \in SUBSET Cats : Cardinality(T) <= MaxDeps}}

Category(c, d) ==
    IF d.has
    THEN [name |-> c, weight |-> Weight[c], codes |-> CatCodes[c], depends_on |-> d.deps]
    ELSE [name |-> c, weight |-> Weight[c], codes |-> CatCodes[c]]

Mappings == {[c \in Cats |-> Category(c, d[c])] : d \in [Cats -> DepChoices]}

PlainMapping == [c \in Cats |-> Category(c, [has |-> FALSE, deps |-> {}])]

-----------------------------------------------------------------------------
(* calculate_score *)

\* the elements of a list are not looked at
ValidInput_type_only(icd) == icd.type \in {"str", "list"}

\* the isinstance test of the validation
ValidInput(icd) ==
    \/ icd.type = "str"
    \/ /\ icd.type = "list"
       /\ \A i \in DOMAIN icd.val : icd.val[i].type = "str"

\* the matcher selected by exact_codes
Matches(icd, group, exact) ==
    IF exact THEN check_codes_exact(icd, group) ELSE check_codes_startswith(icd, group)

\* the dependency read the wrong way round: a category goes when a scored one depends on it
Suppressed_reversed(category, scored) ==
    \E d \in scored :
        /\ "depends_on" \in DOMAIN data[d]
        /\ category \in data[d].depends_on

\* the dependencies are looked up in the copy, not in the set being changed
Suppressed_snapshot(category, scored) ==
    /\ "depends_on" \in DOMAIN data[category]
    /\ \E dep \in data[category].depends_on : dep \in Range(snapshot)

\* "depends_on" in details and any(dep in scored_categories for dep in details["depends_on"])
Suppressed(category, scored) ==
    /\ "depends_on" \in DOMAIN data[category]
    /\ \E dep \in data[category].depends_on : dep \in scored

None == [kind |-> "None"]
IntResult(n) == [kind |-> "int", value |-> n]
NoResult == [kind |-> "pending"]

Validate ==
    /\ pc = "validate"
    /\ IF ValidInput(icd_codes)
       THEN /\ pc' = "categorize"
            /\ score' = 0
            /\ scored_categories' = {}
            /\ result' = result
       ELSE /\ pc' = "done"
            /\ result' = None
            /\ UNCHANGED <<score, scored_categories>>
    /\ UNCHANGED <<icd_codes, exact_codes, data, code_group, matchResult, catIdx,
                   grpIdx, snapshot, idx, pending>>

\* one pass through the body of the inner loop: one call of the matcher
CheckGroup ==
    /\ pc = "categorize"
    /\ catIdx <= Len(CatOrder)
    /\ grpIdx <= Len(data[CatOrder[catIdx]].codes)
    /\ LET category == CatOrder[catIdx]
           group == data[category].codes[grpIdx]
           hit == Matches(icd_codes, group, exact_codes)
       IN  /\ code_group' = group
           /\ matchResult' = hit
           /\ IF hit
              THEN /\ scored_categories' = scored_categories \cup {category}
                   /\ catIdx' = catIdx + 1
                   /\ grpIdx' = 1
              ELSE /\ grpIdx' = grpIdx + 1
                   /\ UNCHANGED <<scored_categories, catIdx>>
    /\ UNCHANGED <<pc, icd_codes, exact_codes, data, snapshot, idx, pending, score, result>>

\* the inner loop ran out of groups without a match
NextCategory ==
    /\ pc = "categorize"
    /\ catIdx <= Len(CatOrder)
    /\ grpIdx > Len(data[CatOrder[catIdx]].codes)
    /\ catIdx' = catIdx + 1
    /\ grpIdx' = 1
    /\ UNCHANGED <<pc, icd_codes, exact_codes, data, code_group, matchResult,
                   scored_categories, snapshot, idx, pending, score, result>>

\* list(scored_categories)
CopyScored ==
    /\ pc = "categorize"
    /\ catIdx > Len(CatOrder)
    /\ snapshot' \in PermSeqs(scored_categories)
    /\ idx' = 1
    /\ pc' = "resolve"
    /\ UNCHANGED <<icd_codes, exact_codes, data, code_group, matchResult, catIdx,
                   grpIdx, scored_categories, pending, score, result>>

\* one pass through the body of the dependency loop
ResolveStep ==
    /\ pc = "resolve"
    /\ idx <= Len(snapshot)
    /\ LET category == snapshot[idx]
       IN  scored_categories' =
               IF Suppressed(category, scored_categories)
               THEN scored_categories \ {category}
               ELSE scored_categories
    /\ idx' = idx + 1
    /\ UNCHANGED <<pc, icd_codes, exact_codes, data, code_group, matchResult, catIdx,
                   grpIdx, snapshot, pending, score, result>>

\* the dependency loop is over; the summation loop starts
BeginSum ==
    /\ pc = "resolve"
    /\ idx > Len(snapshot)
    /\ pending' = scored_categories
    /\ pc' = "sum"
    /\ UNCHANGED <<icd_codes, exact_codes, data, code_group, matchResult, catIdx,
                   grpIdx, scored_categories, snapshot, idx, score, result>>

\* score += data[category]["weight"]
SumStep ==
    /\ pc = "sum"
    /\ \E category \in pending :
           /\ score' = score + data[category].weight
           /\ pending' = pending \ {category}
    /\ UNCHANGED <<pc, icd_codes, exact_codes, data, code_group, matchResult, catIdx,
                   grpIdx, scored_categories, snapshot, idx, result>>

\* return score
Return ==
    /\ pc = "sum"
    /\ pending = {}
    /\ result' = IntResult(score)
    /\ pc' = "done"
    /\ UNCHANGED <<icd_codes, exact_codes, data, code_group, matchResult, catIdx,
                   grpIdx, scored_categories, snapshot, idx, pending, score>>

Init ==
    /\ pc = "validate"
    /\ icd_codes \in StrInputs \cup BadInputs
    /\ exact_codes \in BOOLEAN
    /\ data \in Mappings
    /\ code_group = NoGroup
    /\ matchResult = FALSE
    /\ catIdx = 1
    /\ grpIdx = 1
    /\ scored_categories = {}
    /\ snapshot = <<>>
    /\ idx = 1
    /\ pending = {}
    /\ score = 0
    /\ result = NoResult

Next ==
    \/ Validate
    \/ CheckGroup
    \/ NextCategory
    \/ CopyScored
    \/ ResolveStep
    \/ BeginSum
    \/ SumStep
    \/ Return

Spec == Init /\ [][Next]_vars

-----------------------------------------------------------------------------
(* A direct call of one matcher *)

CallExact ==
    /\ pc = "m_call"
    /\ exact_codes
    /\ matchResult' = check_codes_exact(icd_codes, code_group)
    /\ pc' = "m_done"
    /\ UNCHANGED <<icd_codes, exact_codes, data, code_group, catIdx, grpIdx,
                   scored_categories, snapshot, idx, pending, score, result>>

CallStartswith ==
    /\ pc = "m_call"
    /\ ~exact_codes
    /\ matchResult' = check_codes_startswith(icd_codes, code_group)
    /\ pc' = "m_done"
    /\ UNCHANGED <<icd_codes, exact_codes, data, code_group, catIdx, grpIdx,
                   scored_categories, snapshot, idx, pending, score, result>>

\* the direct calls with a group of condition 'any' (or an unknown condition)
InitAny ==
    /\ pc = "m_call"
    /\ icd_codes \in StrInputs
    /\ exact_codes \in BOOLEAN
    /\ code_group \in AnyGroups \cup OtherGroups
    /\ data = PlainMapping
    /\ matchResult = FALSE
    /\ catIdx = 1
    /\ grpIdx = 1
    /\ scored_categories = {}
    /\ snapshot = <<>>
    /\ idx = 1
    /\ pending = {}
    /\ score = 0
    /\ result = NoResult

InitMatch ==
    /\ pc = "m_call"
    /\ icd_codes \in StrInputs
    /\ exact_codes \in BOOLEAN
    /\ code_group \in CodeGroups
    /\ data = PlainMapping
    /\ matchResult = FALSE
    /\ catIdx = 1
    /\ grpIdx = 1
    /\ scored_categories = {}
    /\ snapshot = <<>>
    /\ idx = 1
    /\ pending = {}
    /\ score = 0
    /\ result = NoResult

NextMatch ==
    \/ CallExact
    \/ CallStartswith

SpecMatch == InitMatch /\ [][NextMatch]_vars

SpecAny == InitAny /\ [][NextMatch]_vars

-----------------------------------------------------------------------------
(* What the claims are stated with *)

\* the argument is a string or a list of strings
WellTyped(icd) == icd \in StrInputs

\* the codes of the input, as a set
InputCodes(icd) ==
    IF icd.type = "str" THEN {icd.val} ELSE {icd.val[j].val : j \in DOMAIN icd.val}

\* p is c cut off after some k characters
IsPrefixOf(p, c) == \E k \in 0..Len(c) : p = [i \in 1..k |-> c[i]]

\* an input code matches an entry of a group, in the given mode
CodeMatches(c, entry, exact) == IF exact THEN c = entry ELSE IsPrefixOf(entry, c)

\* every sub-group has an entry that some input code matches
BothSatisfied(icd, group, exact) ==
    \A g \in DOMAIN group.codes :
        \E c \in InputCodes(icd) : \E e \in Range(group.codes[g]) : CodeMatches(c, e, exact)

\* some entry of the flat group is matched by some input code
AnySatisfied(icd, group, exact) ==
    \E c \in InputCodes(icd) : \E e \in Range(group.codes) : CodeMatches(c, e, exact)

\* the data-model invariants of a code group
WellFormed(group) ==
    \/ group.condition = "any" /\ Len(group.codes) >= 1
    \/ group.condition = "both" /\ Len(group.codes) >= 1

RECURSIVE SumWeights(_)
SumWeights(S) ==
    IF S = {} THEN 0
    ELSE LET c == CHOOSE x \in S : TRUE IN data[c].weight + SumWeights(S \ {c})

\* the categories that score for an input: the two nested loops as a whole
ScoredOf(icd) ==
    {c \in Cats : \E g \in DOMAIN data[c].codes : Matches(icd, data[c].codes[g], exact_codes)}

\* the dependency loop as a whole, visiting the categories in the given order
RECURSIVE ResolveFrom(_, _, _)
ResolveFrom(scored, order, i) ==
    IF i > Len(order) THEN scored
    ELSE ResolveFrom(IF Suppressed(order[i], scored) THEN scored \ {order[i]} ELSE scored,
                     order, i + 1)

ResolveSeq(scored, order) == ResolveFrom(scored, order, 1)

\* the categories that scored, before the dependency loop touched the set
ScoredBefore == Range(snapshot)

HasDeps(c) == "depends_on" \in DOMAIN data[c]

\* no category lists itself in its depends_on
NoSelfDep == \A c \in Cats : HasDeps(c) => c \notin data[c].depends_on

-----------------------------------------------------------------------------
(* The claims *)

\* C1: a group of condition 'both' is satisfied, in exact and in prefix mode, exactly
\* when every sub-group has an entry matched by some input code (stated here for the
\* groups all of whose sub-groups hold a code, the claim's [[A,B],[C,D]] among them).
C1_BothIffEverySubGroup ==
    (/\ pc = "m_done"
     /\ code_group.condition = "both"
     /\ \A g \in DOMAIN code_group.codes : code_group.codes[g] # <<>>)
        => (matchResult = BothSatisfied(icd_codes, code_group, exact_codes))

\* C2: after the dependency loop the retained set is exactly the scored categories
\* none of whose depends_on entries scored, whatever the visiting order (stated here
\* for the tables in which no category lists itself).
C2_ReadsPreRemovalSet ==
    (pc \in {"sum", "done"} /\ WellTyped(icd_codes) /\ NoSelfDep)
        => (scored_categories =
               {c \in ScoredBefore :
                   ~(HasDeps(c) /\ data[c].depends_on \cap ScoredBefore # {})})

\* C3: a category depending on one without depends_on is dropped when both scored
\* and the other is kept; alone it is kept; the score is the sum of the retained weights.
C3_DependencySuppression ==
    (pc = "done" /\ WellTyped(icd_codes)) =>
        /\ result = IntResult(SumWeights(scored_categories))
        /\ \A m, s \in Cats :
              (m # s /\ HasDeps(m) /\ s \in data[m].depends_on /\ ~HasDeps(s)) =>
                 /\ ({m, s} \subseteq ScoredBefore
                        => (m \notin scored_categories /\ s \in scored_categories))
                 /\ (data[m].depends_on = {s} /\ ScoredBefore = {m}
                        => (scored_categories = {m} /\ result = IntResult(data[m].weight)))
        /\ (/\ HasDeps("liver_mild") /\ data["liver_mild"].depends_on = {"liver_severe"}
            /\ ~HasDeps("liver_severe")) =>
                 /\ (ScoredBefore = {"liver_mild", "liver_severe"}
                        => (scored_categories = {"liver_severe"} /\ result = IntResult(6)))
                 /\ (ScoredBefore = {"liver_mild"}
                        => (scored_categories = {"liver_mild"} /\ result = IntResult(2)))

C3_Witness ==
    /\ pc = "done"
    /\ HasDeps("liver_mild") /\ data["liver_mild"].depends_on = {"liver_severe"}
    /\ ~HasDeps("liver_severe")
    /\ icd_codes = List(<<Str(K746), Str(K747)>>)
    /\ ScoredBefore = {"liver_mild", "liver_severe"}
    /\ scored_categories = {"liver_severe"}
    /\ result = IntResult(6)

\* C4: a group of condition 'any' is satisfied in exact mode exactly when an input code
\* equals one of its codes, in prefix mode exactly when an input code starts with one;
\* a single string counts as the list holding it.
C4_AnyGroup ==
    (pc = "m_done" /\ code_group.condition = "any") =>
        /\ matchResult = AnySatisfied(icd_codes, code_group, exact_codes)
        /\ (icd_codes = Str(K7471) /\ K747 \in Range(code_group.codes)) =>
              (matchResult = (~exact_codes \/ K7471 \in Range(code_group.codes)))
        /\ icd_codes.type = "str" =>
              (matchResult = Matches(List(<<icd_codes>>), code_group, exact_codes))

C4_Witness ==
    /\ pc = "m_done"
    /\ ~exact_codes
    /\ icd_codes = Str(K7471)
    /\ code_group = [condition |-> "any", codes |-> <<K747>>]
    /\ matchResult

\* C5: an argument that is neither a string nor a list of strings yields None, which is
\* no integer score, and no category is matched and no weight summed for it.
C5_InvalidInput ==
    ~WellTyped(icd_codes) =>
        /\ pc \in {"validate", "done"}
        /\ catIdx = 1 /\ grpIdx = 1
        /\ scored_categories = {} /\ snapshot = <<>> /\ score = 0
        /\ pc = "done" => (result = None /\ result.kind # "int" /\ result # IntResult(0))

C5_Witness ==
    /\ pc = "done"
    /\ icd_codes = List(<<Int123, Str(E10)>>)
    /\ result = None

\* C6: reordering the input codes changes neither the set of scored categories nor the
\* score (the set iteration order of the run being the same).
C6_InputOrderIndependent ==
    (pc = "done" /\ WellTyped(icd_codes) /\ icd_codes.type = "list") =>
        \A p \in PermsOfSeq(icd_codes.val) :
            /\ ScoredOf(List(p)) = ScoredBefore
            /\ IntResult(SumWeights(ResolveSeq(ScoredOf(List(p)), snapshot))) = result

C6_Witness ==
    /\ pc = "done"
    /\ ~exact_codes
    /\ icd_codes = List(<<Str(K746), Str(K7471)>>)
    /\ ScoredBefore = Cats
    /\ result.kind = "int"

\* C7: for an empty input list every well-formed group is unsatisfied, in both modes.
C7_EmptyInputNeverMatches ==
    (pc = "m_done" /\ icd_codes = List(<<>>) /\ WellFormed(code_group))
        => (matchResult = FALSE)

\* C8: the retained set and the score are the same whatever order the scored
\* categories are visited in (stated here for the tables in which no category lists
\* itself).
C8_VisitOrderIndependent ==
    (pc = "done" /\ WellTyped(icd_codes) /\ NoSelfDep) =>
        \A order \in PermSeqs(ScoredBefore) :
            /\ ResolveSeq(ScoredBefore, order) = scored_categories
            /\ IntResult(SumWeights(ResolveSeq(ScoredBefore, order))) = result

\* C9: whenever the exact matcher accepts, the prefix matcher accepts too.
C9_ExactImpliesPrefix ==
    (pc = "m_done" /\ exact_codes /\ matchResult)
        => check_codes_startswith(icd_codes, code_group)

====
